---- MODULE Spec2Model ----
(***************************************************************************)
(* A model of unimod_mapper.UnimodMapper: the record store parsed from the *)
(* XML files, the lazily built multi-key index (`mapper`), the lookup      *)
(* methods built on it, the approximate-mass lookups, the overlay writer   *)
(* writeXML, and the request reconciler map_mods.                          *)
(*                                                                         *)
(* Python values are modelled as follows.                                  *)
(*   - None / a cached value: the sequences <<>> and <<v>>.                *)
(*   - str: a TLA+ string; float mass: a fixed-point integer (MassScale    *)
(*     units per Dalton); int: an integer.                                 *)
(*   - a dict key of the mapper: <<"s", str>> for a str and <<"n", m>> for *)
(*     a number (a str never equals a number in Python, while the int 4    *)
(*     and the float 4.0 are the same key).                                *)
(*   - a composition dict: the sequence of its <<symbol, number>> items in *)
(*     insertion order.                                                    *)
(***************************************************************************)
EXTENDS Integers, Sequences, FiniteSets, TLC

VARIABLES
    unimod_xml,     \* records held by unimod.xml (the mandatory base file)
    usermod_xml,    \* <<>> when usermod.xml does not exist, else <<records>>
    custom_xml,     \* a user file outside the package: <<>> or <<records>>
    _data_list,     \* self._data_list: <<>> (None) or <<list of records>>
    _mapper,        \* self._mapper: <<>> (None) or <<index dict>>
    call,           \* the last method called and its argument
    rval            \* what that call returned or raised

vars == <<unimod_xml, usermod_xml, custom_xml, _data_list, _mapper, call, rval>>

-----------------------------------------------------------------------------
(* Bounds *)

MaxRecords == 2     \* records in the XML files, in total
MaxRequests == 2    \* requests in one mod_list given to map_mods

(* Fixed-point scale of a float mass: units per Dalton. *)
MassScale == 1000

-----------------------------------------------------------------------------
(* Python helpers *)

None == <<>>
Some(x) == <<x>>

Digits == <<"0", "1", "2", "3", "4", "5", "6", "7", "8", "9">>

RECURSIVE NatToStr(_)
NatToStr(n) ==
    IF n < 10 THEN Digits[n + 1]
    ELSE NatToStr(n \div 10) \o Digits[(n % 10) + 1]

(* str(i) of an int *)
IntToStr(i) == IF i < 0 THEN "-" \o NatToStr(-i) ELSE NatToStr(i)

(* The key a Python value hashes to in the mapper dict. *)
StrKey(s) == <<"s", s>>
NumKey(m) == <<"n", m>>
IntKey(i) == <<"n", i * MassScale>>

(* Values an id argument can take: an int or a str. *)
IntId(i) == [t |-> "int", v |-> i]
StrId(s) == [t |-> "str", v |-> s]

(* Element symbols in the order Python's sorted() gives them. *)
SymbolOrder == <<"13C", "C", "H", "N", "O">>

(* dict helpers on a composition (sequence of <<symbol, number>> items) *)
HasSymbol(element, sym) == \E i \in 1..Len(element) : element[i][1] = sym
NumberOf(element, sym) ==
    element[CHOOSE i \in 1..Len(element) : element[i][1] = sym][2]

(* "{0}({1})".format(symbol, number) *)
FormatTerm(sym, number) == sym \o "(" \o IntToStr(number) \o ")"

-----------------------------------------------------------------------------
(* _parseXML *)

(* One <mod> entry as _parseXML stores it. *)
ModRecord(id, name, mass, element, specificity) ==
    [unimodID |-> id, unimodname |-> name, mono_mass |-> mass,
     element |-> element, specificity |-> specificity]

(* self.unimod_xml_names after __init__ with the default xml_file_list:
   usermod.xml first, then unimod.xml. *)
unimod_xml_names == <<"usermod.xml", "unimod.xml">>

(* The content of a file, <<>> when the file does not exist. *)
FileContent(xml_file) ==
    IF xml_file = "usermod.xml" THEN usermod_xml
    ELSE IF xml_file = "unimod.xml" THEN Some(unimod_xml)
    ELSE custom_xml

RECURSIVE _parseXML(_)
_parseXML(xml_file_list) ==
    IF xml_file_list = <<>> THEN <<>>
    ELSE LET f == FileContent(Head(xml_file_list))
             here == IF f = None THEN <<>> ELSE f[1]
         IN here \o _parseXML(Tail(xml_file_list))

-----------------------------------------------------------------------------
(* _initialize_mapper *)

MAJORS == <<"C", "H">>

RECURSIVE MajorTerms(_, _)
MajorTerms(element, majors) ==
    IF majors = <<>> THEN ""
    ELSE (IF HasSymbol(element, Head(majors))
          THEN FormatTerm(Head(majors), NumberOf(element, Head(majors)))
          ELSE "") \o MajorTerms(element, Tail(majors))

(* The other elements in the order of the dict instead of sorted. *)
RECURSIVE SortedMinorTerms_DictOrder(_, _)
SortedMinorTerms_DictOrder(element, rank) ==
    IF rank > Len(element) THEN ""
    ELSE (IF element[rank][1] # "C" /\ element[rank][1] # "H"
          THEN FormatTerm(element[rank][1], element[rank][2])
          ELSE "") \o SortedMinorTerms_DictOrder(element, rank + 1)

RECURSIVE SortedMinorTerms(_, _)
SortedMinorTerms(element, rank) ==
    IF rank > Len(SymbolOrder) THEN ""
    ELSE LET sym == SymbolOrder[rank]
         IN (IF HasSymbol(element, sym) /\ sym # "C" /\ sym # "H"
             THEN FormatTerm(sym, NumberOf(element, sym))
             ELSE "") \o SortedMinorTerms(element, rank + 1)

(* The string built for key == "element". *)
hill_notation(element) == MajorTerms(element, MAJORS) \o SortedMinorTerms(element, 1)

(* if key not in mapper: mapper[key] = []; mapper[key].append(index) *)
Register(mapper, key, index) ==
    IF key \in DOMAIN mapper
    THEN [mapper EXCEPT ![key] = Append(@, index)]
    ELSE mapper @@ (key :> <<index>>)

(* The keys one record is registered under, in the order of its dict items:
   unimodID, unimodname, element, (specificity: skipped), mono_mass. *)
RecordKeys(r) ==
    <<StrKey(r.unimodID), StrKey(r.unimodname),
      StrKey(hill_notation(r.element)), NumKey(r.mono_mass)>>

RECURSIVE RegisterAll(_, _, _)
RegisterAll(mapper, keys, index) ==
    IF keys = <<>> THEN mapper
    ELSE RegisterAll(Register(mapper, Head(keys), index), Tail(keys), index)

(* Record positions are zero-based, as enumerate() gives them. *)
RECURSIVE BuildFrom(_, _, _)
BuildFrom(mapper, data_list, index) ==
    IF index >= Len(data_list) THEN mapper
    ELSE BuildFrom(RegisterAll(mapper, RecordKeys(data_list[index + 1]), index),
                   data_list, index + 1)

_initialize_mapper(data_list) == BuildFrom(<<>>, data_list, 0)

-----------------------------------------------------------------------------
(* The lazy properties data_list and mapper *)

(* property data_list *)
data_list == IF _data_list = None THEN _parseXML(unimod_xml_names) ELSE _data_list[1]

(* property mapper *)
mapper == IF _mapper = None THEN _initialize_mapper(data_list) ELSE _mapper[1]

(* mapper.get(key, None) *)
MapperGet(key) == IF key \in DOMAIN mapper THEN Some(mapper[key]) ELSE None

(* _data_list_2_value *)
_data_list_2_value(index, return_key) ==
    LET r == data_list[index + 1]
    IN CASE return_key = "unimodID" -> r.unimodID
         [] return_key = "unimodname" -> r.unimodname
         [] return_key = "mono_mass" -> r.mono_mass
         [] return_key = "element" -> r.element
         [] return_key = "specificity" -> r.specificity

-----------------------------------------------------------------------------
(* What a call gives back: a list, a single value, None, or an exception. *)

ListResult(l) == [kind |-> "list", val |-> l]
ValueResult(v) == [kind |-> "value", val |-> v]
NoneResult == [kind |-> "None", val |-> <<>>]
Raised(e) == [kind |-> "raise", val |-> e]

(* for index in index_list: list_2_return.append(_data_list_2_value(index, key)) *)
ValuesAt(index_list, return_key) ==
    [i \in 1..Len(index_list) |-> _data_list_2_value(index_list[i], return_key)]

(* self.data_list[index] raises IndexError for a position the list lacks. *)
InRange(index_list) ==
    \A i \in 1..Len(index_list) : index_list[i] < Len(data_list)

(* The last position of the list instead of the lowest. *)
MinIndex_Last(index_list) == index_list[Len(index_list)]

(* min(index_list) *)
MinIndex(index_list) ==
    CHOOSE m \in {index_list[i] : i \in 1..Len(index_list)} :
        \A j \in 1..Len(index_list) : m <= index_list[j]

(* The list body with the index subscripted instead of mapper.get. *)
GetList_Subscript(key, return_key) ==
    IF key \in DOMAIN mapper THEN ListResult(ValuesAt(mapper[key], return_key))
    ELSE Raised("KeyError")

(* The <from>2<to>_list body written with mapper.get(key, None). *)
GetList(key, return_key) ==
    LET index_list == MapperGet(key)
    IN IF index_list = None THEN ListResult(<<>>)
       ELSE IF InRange(index_list[1]) THEN ListResult(ValuesAt(index_list[1], return_key))
       ELSE Raised("IndexError")

(* The <from>2first_<to> body. *)
GetFirst(key, return_key) ==
    LET index == MapperGet(key)
    IN IF index = None THEN NoneResult
       ELSE IF InRange(<<MinIndex(index[1])>>)
            THEN ValueResult(_data_list_2_value(MinIndex(index[1]), return_key))
       ELSE Raised("IndexError")

(* The list body written with mapper[key]: a missing key raises KeyError. *)
SubscriptList(key, return_key) ==
    IF key \in DOMAIN mapper THEN ListResult(ValuesAt(mapper[key], return_key))
    ELSE Raised("KeyError")

(* The id used as the key as it came, an int not turned into a str. *)
IdKey_AsGiven(unimod_id) ==
    IF unimod_id.t = "int" THEN IntKey(unimod_id.v) ELSE StrKey(unimod_id.v)

(* if isinstance(unimod_id, int) is True: unimod_id = str(unimod_id) *)
IdKey(unimod_id) ==
    IF unimod_id.t = "int" THEN StrKey(IntToStr(unimod_id.v)) ELSE StrKey(unimod_id.v)

(* name 2 ... *)
name2mass_list(unimod_name) == GetList(StrKey(unimod_name), "mono_mass")
name2first_mass(unimod_name) == GetFirst(StrKey(unimod_name), "mono_mass")
name2composition_list(unimod_name) == GetList(StrKey(unimod_name), "element")
name2first_composition(unimod_name) == GetFirst(StrKey(unimod_name), "element")
name2id_list(unimod_name) == GetList(StrKey(unimod_name), "unimodID")
name2first_id(unimod_name) == GetFirst(StrKey(unimod_name), "unimodID")
name2specificity_list(unimod_name) == GetList(StrKey(unimod_name), "specificity")

(* unimodid 2 ... *)
id2mass_list(unimod_id) == GetList(IdKey(unimod_id), "mono_mass")
id2first_mass(unimod_id) == GetFirst(IdKey(unimod_id), "mono_mass")
id2composition_list(unimod_id) == GetList(IdKey(unimod_id), "element")
id2first_composition(unimod_id) == GetFirst(IdKey(unimod_id), "element")
id2name_list(unimod_id) == GetList(IdKey(unimod_id), "unimodname")
id2first_name(unimod_id) == GetFirst(IdKey(unimod_id), "unimodname")

(* mass 2 ... *)
mass2name_list(mass) == SubscriptList(NumKey(mass), "unimodname")
mass2id_list(mass) == GetList(NumKey(mass), "unimodID")
mass2composition_list(mass) == SubscriptList(NumKey(mass), "element")

(* composition 2 ... *)
composition2name_list(composition) == GetList(StrKey(composition), "unimodname")
composition2id_list(composition) == GetList(StrKey(composition), "unimodID")

(* len(set(list_2_return)) == 1 *)
OneDistinct(l) == Cardinality({l[i] : i \in 1..Len(l)}) = 1

composition2mass(composition) ==
    LET index_list == MapperGet(StrKey(composition))
    IN IF index_list # None
       THEN LET list_2_return == ValuesAt(index_list[1], "mono_mass")
            IN IF OneDistinct(list_2_return) THEN ValueResult(list_2_return[1])
               ELSE Raised("AssertionError")
       ELSE NoneResult

-----------------------------------------------------------------------------
(* The datasets and arguments the engine is exercised on *)

SeqsUpTo(S, n) == UNION {[1..k -> S] : k \in 0..n}

CH2 == << <<"C", 1>>, <<"H", 2>> >>
H2C == << <<"H", 2>>, <<"C", 1>> >>

(* Records as the XML files can hold them: a name shared by two records, an
   id shared by two records, a name that is another record's id ("35"), a
   <mod> without record_id (id ""), one composition under two masses, and an
   empty composition. *)
RecordPool ==
    { ModRecord("4", "A", 57021, CH2, << <<"C", "Chemical derivative">> >>),
      ModRecord("35", "A", 15995, H2C, << <<"M", "Post-translational">> >>),
      ModRecord("4", "35", 15995, << <<"O", 1>> >>, << <<"M", "Chemical derivative">> >>),
      ModRecord("", "B", 57021, CH2, <<>>),
      ModRecord("9", "C", 15995, <<>>, << <<"N-term", "Multiple">> >>) }

NameArgs == {"A", "35", "B", "", "Z"}
IdArgs == {IntId(4), StrId("4"), IntId(35), StrId("35"), StrId(""), IntId(8)}
MassArgs == {57021, 15995, 42011}
CompositionArgs == {"C(1)H(2)", "O(1)", "", "A", "N(1)"}

-----------------------------------------------------------------------------
(* The engine *)

(* __init__: nothing is parsed or indexed yet. *)
Constructed ==
    /\ _data_list = None
    /\ _mapper = None
    /\ call = [op |-> "__init__", arg |-> <<>>]
    /\ rval = NoneResult

Init ==
    /\ unimod_xml \in SeqsUpTo(RecordPool, MaxRecords)
    /\ usermod_xml \in {None} \cup
           {Some(u) : u \in SeqsUpTo(RecordPool, MaxRecords - Len(unimod_xml))}
    /\ custom_xml = None
    /\ Constructed

(* A lookup method: it reads self.mapper (built on first use, which parses the
   files when data_list is not cached) and, for a key the index holds, reads
   self.data_list for every position found. *)
Lookup(op, arg, key, result) ==
    /\ call' = [op |-> op, arg |-> arg]
    /\ rval' = result
    /\ _mapper' = Some(mapper)
    /\ _data_list' = IF _mapper = None \/ key \in DOMAIN mapper
                     THEN Some(data_list) ELSE _data_list
    /\ UNCHANGED <<unimod_xml, usermod_xml, custom_xml>>

Do_name2mass_list ==
    \E k \in NameArgs : Lookup("name2mass_list", k, StrKey(k), name2mass_list(k))
Do_name2first_mass ==
    \E k \in NameArgs : Lookup("name2first_mass", k, StrKey(k), name2first_mass(k))
Do_name2composition_list ==
    \E k \in NameArgs :
        Lookup("name2composition_list", k, StrKey(k), name2composition_list(k))
Do_name2first_composition ==
    \E k \in NameArgs :
        Lookup("name2first_composition", k, StrKey(k), name2first_composition(k))
Do_name2id_list ==
    \E k \in NameArgs : Lookup("name2id_list", k, StrKey(k), name2id_list(k))
Do_name2first_id ==
    \E k \in NameArgs : Lookup("name2first_id", k, StrKey(k), name2first_id(k))
Do_name2specificity_list ==
    \E k \in NameArgs :
        Lookup("name2specificity_list", k, StrKey(k), name2specificity_list(k))

Do_id2mass_list ==
    \E k \in IdArgs : Lookup("id2mass_list", k, IdKey(k), id2mass_list(k))
Do_id2first_mass ==
    \E k \in IdArgs : Lookup("id2first_mass", k, IdKey(k), id2first_mass(k))
Do_id2composition_list ==
    \E k \in IdArgs : Lookup("id2composition_list", k, IdKey(k), id2composition_list(k))
Do_id2first_composition ==
    \E k \in IdArgs :
        Lookup("id2first_composition", k, IdKey(k), id2first_composition(k))
Do_id2name_list ==
    \E k \in IdArgs : Lookup("id2name_list", k, IdKey(k), id2name_list(k))
Do_id2first_name ==
    \E k \in IdArgs : Lookup("id2first_name", k, IdKey(k), id2first_name(k))

Do_mass2name_list ==
    \E m \in MassArgs : Lookup("mass2name_list", m, NumKey(m), mass2name_list(m))
Do_mass2id_list ==
    \E m \in MassArgs : Lookup("mass2id_list", m, NumKey(m), mass2id_list(m))
Do_mass2composition_list ==
    \E m \in MassArgs :
        Lookup("mass2composition_list", m, NumKey(m), mass2composition_list(m))

Do_composition2name_list ==
    \E c \in CompositionArgs :
        Lookup("composition2name_list", c, StrKey(c), composition2name_list(c))
Do_composition2id_list ==
    \E c \in CompositionArgs :
        Lookup("composition2id_list", c, StrKey(c), composition2id_list(c))
Do_composition2mass ==
    \E c \in CompositionArgs :
        Lookup("composition2mass", c, StrKey(c), composition2mass(c))

Next ==
    \/ Do_name2mass_list
    \/ Do_name2first_mass
    \/ Do_name2composition_list
    \/ Do_name2first_composition
    \/ Do_name2id_list
    \/ Do_name2first_id
    \/ Do_name2specificity_list
    \/ Do_id2mass_list
    \/ Do_id2first_mass
    \/ Do_id2composition_list
    \/ Do_id2first_composition
    \/ Do_id2name_list
    \/ Do_id2first_name
    \/ Do_mass2name_list
    \/ Do_mass2id_list
    \/ Do_mass2composition_list
    \/ Do_composition2name_list
    \/ Do_composition2id_list
    \/ Do_composition2mass

Spec == Init /\ [][Next]_vars

-----------------------------------------------------------------------------
(* map_mods: the request reconciler *)

(* A request is a dict: aa, type, position, one of name / id, and optionally
   neutral_loss (a numeric literal or the sentinel "unimod"). *)
NumLiteral(x) == [t |-> "num", v |-> x]
Sentinel == [t |-> "str", v |-> "unimod"]

HasKey(mod, key) == key \in DOMAIN mod

(* The dataset-derived neutral loss of a modification at a site: the empty
   list where none is defined, else the loss mass as a numeric string. *)
UnimodNeutralLoss(name, aa) ==
    IF name = "Carbamidomethyl" /\ aa = "M" THEN ValueResult("105.024835")
    ELSE ListResult(<<>>)

(* A numeric literal replaced by the empty list instead of echoed. *)
ResolveNeutralLoss_EmptyList(mod, name) ==
    IF ~HasKey(mod, "neutral_loss") THEN NoneResult
    ELSE IF mod.neutral_loss.t = "str" /\ mod.neutral_loss.v = "unimod"
         THEN UnimodNeutralLoss(name, mod.aa)
    ELSE ListResult(<<>>)

(* The neutral_loss of a result: no value without a hint, the dataset's value
   for the sentinel, and a numeric literal as it was given. *)
ResolveNeutralLoss(mod, name) ==
    IF ~HasKey(mod, "neutral_loss") THEN NoneResult
    ELSE IF mod.neutral_loss.t = "str" /\ mod.neutral_loss.v = "unimod"
         THEN UnimodNeutralLoss(name, mod.aa)
    ELSE ValueResult(mod.neutral_loss.v)

(* The position the result takes in its own output list. *)
RequestId_ListPosition(mod, index, rdict) ==
    IF mod.type = "fix" THEN Len(rdict.fix) ELSE Len(rdict.opt)

(* The _id of a result: the zero-based position of its request in mod_list. *)
RequestId(mod, index, rdict) == index

(* Every result sent to the opt list. *)
TargetList_AlwaysOpt(mod) == "opt"

(* The output list a result goes to. *)
TargetList(mod) == mod.type

(* What resolving one request gives: the result built, or nothing. *)
Found(m) == [kind |-> "found", val |-> m]
Dropped == [kind |-> "dropped", val |-> <<>>]

(* A request with neither name nor id dropped like one that is not found. *)
MissingKey_Dropped(mod) == Dropped

(* A request with neither name nor id: an input error is raised. *)
MissingKey(mod) == Raised("InputError")

(* The id field of a result: the request's own id when it was resolved by id,
   the record's unimodID when it was resolved by name. *)
ResultId(mod, unimodID) == IF HasKey(mod, "id") THEN mod.id ELSE StrId(unimodID)

MappedModification(mod, index, rdict, name, mass, composition, unimodID) ==
    [aa |-> mod.aa, position |-> mod.position, name |-> name, mass |-> mass,
     composition |-> composition, id |-> ResultId(mod, unimodID),
     neutral_loss |-> ResolveNeutralLoss(mod, name),
     _id |-> RequestId(mod, index, rdict), org |-> mod, unimod |-> TRUE]

(* A record's specificity admits the request's site. *)
SiteMatches(aa, specificity) ==
    aa = "*" \/ \E i \in 1..Len(specificity) : specificity[i][1] = aa

(* A request keyed by name: among the records the name maps to, the one at the
   lowest position whose specificity admits the request's site. *)
ResolveByName(mod, index, rdict) ==
    LET specs == name2specificity_list(mod.name)
        ids == name2id_list(mod.name)
        names == GetList(StrKey(mod.name), "unimodname")
        masses == name2mass_list(mod.name)
        comps == name2composition_list(mod.name)
    IN IF specs.kind = "raise" THEN specs
       ELSE LET hits == {i \in 1..Len(specs.val) : SiteMatches(mod.aa, specs.val[i])}
            IN IF hits = {} THEN Dropped
               ELSE LET i == CHOOSE h \in hits : \A g \in hits : h <= g
                    IN Found(MappedModification(mod, index, rdict, names.val[i],
                                 masses.val[i], comps.val[i], ids.val[i]))

(* A request keyed by id. *)
ResolveById(mod, index, rdict) ==
    LET name == id2first_name(mod.id)
        mass == id2first_mass(mod.id)
        comp == id2first_composition(mod.id)
    IN IF name.kind = "raise" THEN name
       ELSE IF name.kind = "None" THEN Dropped
       ELSE Found(MappedModification(mod, index, rdict, name.val, mass.val, comp.val,
                                     IdKey(mod.id)[2]))

ResolveRequest(mod, index, rdict) ==
    IF HasKey(mod, "name") THEN ResolveByName(mod, index, rdict)
    ELSE IF HasKey(mod, "id") THEN ResolveById(mod, index, rdict)
    ELSE MissingKey(mod)

(* rdict[type].append(mapped) *)
AppendTo(rdict, type, m) ==
    IF type = "fix" THEN [rdict EXCEPT !.fix = Append(@, m)]
    ELSE [rdict EXCEPT !.opt = Append(@, m)]

(* for index, mod in enumerate(mod_list) *)
RECURSIVE MapFrom(_, _, _)
MapFrom(mod_list, index, rdict) ==
    IF index >= Len(mod_list) THEN [kind |-> "rdict", val |-> rdict]
    ELSE LET mod == mod_list[index + 1]
             r == ResolveRequest(mod, index, rdict)
         IN IF r.kind = "raise" THEN r
            ELSE IF r.kind = "dropped" THEN MapFrom(mod_list, index + 1, rdict)
            ELSE MapFrom(mod_list, index + 1, AppendTo(rdict, TargetList(mod), r.val))

map_mods(mod_list) == MapFrom(mod_list, 0, [fix |-> <<>>, opt |-> <<>>])

-----------------------------------------------------------------------------
(* map_mods exercised on the reference records of the tests *)

(* unimod.xml as the tests expect it: Oxidation, Carbamidomethyl, Acetyl. *)
ReferenceRecords ==
    << ModRecord("1", "Acetyl", 42011, << <<"H", 2>>, <<"C", 2>>, <<"O", 1>> >>,
                 << <<"K", "Multiple">>, <<"N-term", "Multiple">> >>),
       ModRecord("4", "Carbamidomethyl", 57021,
                 << <<"H", 3>>, <<"C", 2>>, <<"N", 1>>, <<"O", 1>> >>,
                 << <<"C", "Chemical derivative">>, <<"M", "Chemical derivative">> >>),
       ModRecord("35", "Oxidation", 15995, << <<"O", 1>> >>,
                 << <<"M", "Post-translational">> >>) >>

(* The records of l at the positions keep, in order. *)
RECURSIVE Restrict(_, _, _)
Restrict(l, keep, i) ==
    IF i > Len(l) THEN <<>>
    ELSE (IF i \in keep THEN <<l[i]>> ELSE <<>>) \o Restrict(l, keep, i + 1)

(* The reference file with any of its records missing. *)
ReferenceFiles ==
    {Restrict(ReferenceRecords, keep, 1) : keep \in SUBSET (1..Len(ReferenceRecords))}

RequestPool ==
    { [aa |-> "C", type |-> "opt", position |-> "any", name |-> "Oxidation"],
      [aa |-> "M", type |-> "opt", position |-> "any", name |-> "Oxidation",
       neutral_loss |-> NumLiteral(0)],
      [aa |-> "M", type |-> "fix", position |-> "any", name |-> "Carbamidomethyl",
       neutral_loss |-> Sentinel],
      [aa |-> "C", type |-> "fix", position |-> "any", id |-> IntId(4)],
      [aa |-> "*", type |-> "opt", position |-> "Prot-N-term", id |-> StrId("1")],
      [aa |-> "C", type |-> "fix", position |-> "any"] }

InitMapMods ==
    /\ unimod_xml \in ReferenceFiles
    /\ usermod_xml = None
    /\ custom_xml = None
    /\ Constructed

(* The requests map_mods looks at: all of them, or those up to the first one
   that has neither name nor id. *)
RECURSIVE Looked(_)
Looked(mod_list) ==
    IF mod_list = <<>> THEN <<>>
    ELSE IF HasKey(Head(mod_list), "name") \/ HasKey(Head(mod_list), "id")
         THEN <<Head(mod_list)>> \o Looked(Tail(mod_list))
         ELSE <<>>

Do_map_mods ==
    \E mod_list \in SeqsUpTo(RequestPool, MaxRequests) :
        /\ call' = [op |-> "map_mods", arg |-> mod_list]
        /\ rval' = map_mods(mod_list)
        /\ _mapper' = IF Looked(mod_list) = <<>> THEN _mapper ELSE Some(mapper)
        /\ _data_list' = IF Looked(mod_list) = <<>> THEN _data_list ELSE Some(data_list)
        /\ UNCHANGED <<unimod_xml, usermod_xml, custom_xml>>

NextMapMods == Do_map_mods

SpecMapMods == InitMapMods /\ [][NextMapMods]_vars

-----------------------------------------------------------------------------
(* Vocabulary of the lookup claims *)

NameListOps == {"name2mass_list", "name2composition_list", "name2id_list",
                "name2specificity_list"}
NameFirstOps == {"name2first_mass", "name2first_composition", "name2first_id"}
IdListOps == {"id2mass_list", "id2composition_list", "id2name_list"}
IdFirstOps == {"id2first_mass", "id2first_composition", "id2first_name"}
MassListOps == {"mass2name_list", "mass2id_list", "mass2composition_list"}
CompositionListOps == {"composition2name_list", "composition2id_list"}

ListOps == NameListOps \cup IdListOps \cup MassListOps \cup CompositionListOps
FirstOps == NameFirstOps \cup IdFirstOps

(* The axis a method looks its key up on, and the attribute it returns. *)
FromAxis(op) ==
    IF op \in NameListOps \cup NameFirstOps THEN "unimodname"
    ELSE IF op \in IdListOps \cup IdFirstOps THEN "unimodID"
    ELSE IF op \in MassListOps THEN "mono_mass"
    ELSE "composition"

ToAttr(op) ==
    CASE op \in {"name2mass_list", "name2first_mass", "id2mass_list",
                 "id2first_mass", "composition2mass"} -> "mono_mass"
      [] op \in {"name2composition_list", "name2first_composition",
                 "id2composition_list", "id2first_composition",
                 "mass2composition_list"} -> "element"
      [] op \in {"name2id_list", "name2first_id", "mass2id_list",
                 "composition2id_list"} -> "unimodID"
      [] op \in {"id2name_list", "id2first_name", "mass2name_list",
                 "composition2name_list"} -> "unimodname"
      [] op = "name2specificity_list" -> "specificity"

(* The list variant answering the same question as a first variant. *)
ListVariant(op, arg) ==
    CASE op = "name2first_mass" -> name2mass_list(arg)
      [] op = "name2first_composition" -> name2composition_list(arg)
      [] op = "name2first_id" -> name2id_list(arg)
      [] op = "id2first_mass" -> id2mass_list(arg)
      [] op = "id2first_composition" -> id2composition_list(arg)
      [] op = "id2first_name" -> id2name_list(arg)

FirstVariant(op, arg) ==
    CASE op = "id2first_mass" -> id2first_mass(arg)
      [] op = "id2first_composition" -> id2first_composition(arg)
      [] op = "id2first_name" -> id2first_name(arg)

(* The caller's key as a value of the from-axis: an id in its string form. *)
ArgValue(op, arg) ==
    IF op \in IdListOps \cup IdFirstOps
    THEN (IF arg.t = "int" THEN IntToStr(arg.v) ELSE arg.v)
    ELSE arg

(* The Index key the caller's key stands for. *)
ArgKey(op, arg) ==
    IF op \in MassListOps THEN <<"n", arg>> ELSE <<"s", ArgValue(op, arg)>>

(* A record's attribute on an axis. *)
AxisValue(r, axis) ==
    CASE axis = "unimodname" -> r.unimodname
      [] axis = "unimodID" -> r.unimodID
      [] axis = "mono_mass" -> r.mono_mass
      [] axis = "element" -> r.element
      [] axis = "specificity" -> r.specificity
      [] axis = "composition" -> hill_notation(r.element)

(* The to-attribute of every record whose from-axis attribute is k, in
   increasing record position. *)
RECURSIVE AxisMatches(_, _, _, _)
AxisMatches(records, axis, k, to) ==
    IF records = <<>> THEN <<>>
    ELSE (IF AxisValue(Head(records), axis) = k
          THEN <<AxisValue(Head(records), to)>> ELSE <<>>)
         \o AxisMatches(Tail(records), axis, k, to)

Positions(index_list) == {index_list[i] : i \in 1..Len(index_list)}

-----------------------------------------------------------------------------
(* C7: a <from>2<to>_list(k) call returns exactly the to-axis attribute of the
   records whose from-axis attribute equals k, in increasing record position,
   and nothing for any other record, whatever the records' other attributes
   are. (The two methods that subscript the index, mass2name_list and
   mass2composition_list, are left to C8.) *)
C7_ListLookupExactPerAxis ==
    (call.op \in ListOps \ {"mass2name_list", "mass2composition_list"})
        => rval = ListResult(AxisMatches(data_list, FromAxis(call.op),
                                         ArgValue(call.op, call.arg), ToAttr(call.op)))

(* C8: a lookup of a key the Index does not hold is never an error: every list
   variant returns the empty list and every first variant returns None. *)
C8_AbsentKeyIsNoError ==
    (call.op \in ListOps \cup FirstOps /\ ArgKey(call.op, call.arg) \notin DOMAIN mapper)
        => /\ rval.kind # "raise"
           /\ call.op \in ListOps => rval = ListResult(<<>>)
           /\ call.op \in FirstOps => rval = NoneResult

(* C9: for a key with one or more matches in the Index, a first variant
   returns the to-axis attribute of the match at the lowest record position,
   which is the first element of the list variant's result; an int id and its
   string form give the same result. *)
C9_FirstIsLowestPosition ==
    (call.op \in FirstOps /\ ArgKey(call.op, call.arg) \in DOMAIN mapper)
        => /\ \E p \in Positions(mapper[ArgKey(call.op, call.arg)]) :
                /\ \A q \in Positions(mapper[ArgKey(call.op, call.arg)]) : p <= q
                /\ rval = ValueResult(AxisValue(data_list[p + 1], ToAttr(call.op)))
           /\ rval = ValueResult(Head(ListVariant(call.op, call.arg).val))
           /\ (call.op \in IdFirstOps /\ call.arg.t = "int")
                => rval = FirstVariant(call.op, StrId(IntToStr(call.arg.v)))

(* C9 witness: an id given as an int has been looked up by a first variant,
   two records at different positions have that id and different masses, and
   the call returned the mass of the one at the lower position. *)
C9_Witness ==
    /\ call.op = "id2first_mass"
    /\ call.arg.t = "int"
    /\ \E p, q \in 1..Len(data_list) :
          /\ p < q
          /\ data_list[p].unimodID = IntToStr(call.arg.v)
          /\ data_list[q].unimodID = IntToStr(call.arg.v)
          /\ data_list[p].mono_mass # data_list[q].mono_mass
          /\ rval = ValueResult(data_list[p].mono_mass)

(* The masses of the records whose canonical composition string is k. *)
MassesOfComposition(k) ==
    {data_list[i].mono_mass :
        i \in {j \in 1..Len(data_list) : hill_notation(data_list[j].element) = k}}

(* C10: composition2mass(k) aborts exactly when two records with canonical
   composition string k have different masses; it returns the shared mass when
   all such records have one mass, and None when there is no such record. *)
C10_Composition2MassAbortsIffInconsistent ==
    (call.op = "composition2mass")
        => /\ (rval = Raised("AssertionError"))
                <=> (Cardinality(MassesOfComposition(call.arg)) >= 2)
           /\ \A m \in MassesOfComposition(call.arg) :
                MassesOfComposition(call.arg) = {m} => rval = ValueResult(m)
           /\ MassesOfComposition(call.arg) = {} => rval = NoneResult

-----------------------------------------------------------------------------
(* Vocabulary of the map_mods claims *)

IsMapped == call.op = "map_mods" /\ rval.kind = "rdict"

(* All results of the call, the fix list first. *)
Outputs == rval.val.fix \o rval.val.opt

IdsOf(l) == {l[j]._id : j \in 1..Len(l)}

(* The Index key a request is resolved under. *)
RequestKey(mod) ==
    IF HasKey(mod, "name") THEN <<"s", mod.name>>
    ELSE <<"s", IF mod.id.t = "int" THEN IntToStr(mod.id.v) ELSE mod.id.v>>

WellFormed(mod) == HasKey(mod, "name") \/ HasKey(mod, "id")

(* The request matches a record: its key is in the Index and, for a name, one
   of the records found admits the request's site. *)
Resolves(mod) ==
    /\ WellFormed(mod)
    /\ RequestKey(mod) \in DOMAIN mapper
    /\ HasKey(mod, "name") =>
          \E p \in Positions(mapper[RequestKey(mod)]) :
              SiteMatches(mod.aa, data_list[p + 1].specificity)

ResolvedPositions(mod_list) == {i \in 0..(Len(mod_list) - 1) : Resolves(mod_list[i + 1])}

Increasing(l) == \A i, j \in 1..Len(l) : i < j => l[i]._id < l[j]._id

(* C1: every result carries as _id the zero-based position in the caller's
   list of the request it was resolved from (its org); no two results share an
   _id, so a dropped request leaves a gap and shifts nothing. *)
C1_IdIsInputPosition ==
    IsMapped
        => /\ \A j \in 1..Len(Outputs) :
                /\ Outputs[j]._id \in 0..(Len(call.arg) - 1)
                /\ call.arg[Outputs[j]._id + 1] = Outputs[j].org
           /\ \A i, j \in 1..Len(Outputs) : i # j => Outputs[i]._id # Outputs[j]._id

(* C1 witness: of two requests the first was dropped and the second resolved,
   and the only result has _id 1. *)
C1_Witness ==
    /\ IsMapped
    /\ Len(call.arg) = 2
    /\ ResolvedPositions(call.arg) = {1}
    /\ Len(Outputs) = 1
    /\ Outputs[1]._id = 1

(* C2: the two lists partition the resolved requests by type and keep their
   input order: each resolved request has exactly one result, in the list its
   type names and not in the other. *)
C2_PartitionByType ==
    IsMapped
        => /\ IdsOf(rval.val.fix) \cup IdsOf(rval.val.opt) = ResolvedPositions(call.arg)
           /\ IdsOf(rval.val.fix) \cap IdsOf(rval.val.opt) = {}
           /\ \A i \in IdsOf(rval.val.fix) : call.arg[i + 1].type = "fix"
           /\ \A i \in IdsOf(rval.val.opt) : call.arg[i + 1].type = "opt"
           /\ Increasing(rval.val.fix)
           /\ Increasing(rval.val.opt)

(* C2 witness: two requests of different types both resolved, the opt one into
   the opt list and the fix one after it into the fix list. *)
C2_Witness ==
    /\ IsMapped
    /\ Len(call.arg) = 2
    /\ call.arg[1].type = "opt"
    /\ call.arg[2].type = "fix"
    /\ IdsOf(rval.val.opt) = {0}
    /\ IdsOf(rval.val.fix) = {1}

(* C3: a request whose key matches nothing in the Index is dropped silently:
   the call does not raise on account of it, no result stems from it, and
   when no request resolves both lists are empty. *)
C3_NotFoundIsDropped ==
    (call.op = "map_mods" /\ \A i \in 1..Len(call.arg) : WellFormed(call.arg[i]))
        => /\ rval.kind = "rdict"
           /\ \A i \in 1..Len(call.arg) :
                RequestKey(call.arg[i]) \notin DOMAIN mapper
                    => (i - 1) \notin IdsOf(Outputs)
           /\ ResolvedPositions(call.arg) = {}
                => rval.val = [fix |-> <<>>, opt |-> <<>>]

(* C3 witness: a request by name and a request by id, neither in the Index,
   gave two empty lists. *)
C3_Witness ==
    /\ IsMapped
    /\ \E i, j \in 1..Len(call.arg) :
          /\ HasKey(call.arg[i], "name")
          /\ HasKey(call.arg[j], "id")
          /\ RequestKey(call.arg[i]) \notin DOMAIN mapper
          /\ RequestKey(call.arg[j]) \notin DOMAIN mapper
    /\ rval.val = [fix |-> <<>>, opt |-> <<>>]

(* The record a result was copied from. *)
CopiedFrom(m, r) ==
    /\ r.unimodname = m.name
    /\ r.mono_mass = m.mass
    /\ r.element = m.composition

(* C4: a request whose id is in the Index, in either representation, is
   resolved and its result's id is the request's id as supplied (an int stays
   an int); a result resolved by name has the string unimodID of the record it
   was copied from. *)
C4_IdTypeEcho ==
    IsMapped
        => /\ \A i \in 1..Len(call.arg) :
                (HasKey(call.arg[i], "id") /\ RequestKey(call.arg[i]) \in DOMAIN mapper)
                    => \E j \in 1..Len(Outputs) :
                          /\ Outputs[j]._id = i - 1
                          /\ Outputs[j].id = call.arg[i].id
           /\ \A j \in 1..Len(Outputs) :
                HasKey(Outputs[j].org, "name")
                    => /\ Outputs[j].id.t = "str"
                       /\ \E p \in 1..Len(data_list) :
                             /\ CopiedFrom(Outputs[j], data_list[p])
                             /\ data_list[p].unimodID = Outputs[j].id.v

(* C4 witness: one call resolved a request by an int id and one by name. *)
C4_Witness ==
    /\ IsMapped
    /\ \E i, j \in 1..Len(Outputs) :
          /\ HasKey(Outputs[i].org, "id")
          /\ Outputs[i].id.t = "int"
          /\ HasKey(Outputs[j].org, "name")
          /\ Outputs[j].id.t = "str"

HasLiteral(mod) == HasKey(mod, "neutral_loss") /\ mod.neutral_loss.t = "num"

(* C5 as stated: a numeric literal neutral_loss hint gives the empty list and
   is not echoed; no hint gives no value. *)
C5_LiteralGivesEmptyList ==
    IsMapped
        => \A j \in 1..Len(Outputs) :
              /\ HasLiteral(Outputs[j].org) => Outputs[j].neutral_loss = ListResult(<<>>)
              /\ ~HasKey(Outputs[j].org, "neutral_loss")
                    => Outputs[j].neutral_loss = NoneResult

(* C5 amended: a numeric literal neutral_loss hint is echoed: the result's
   neutral_loss is that literal; no hint gives no value. *)
C5_LiteralIsEchoed ==
    IsMapped
        => \A j \in 1..Len(Outputs) :
              /\ HasLiteral(Outputs[j].org)
                    => Outputs[j].neutral_loss = ValueResult(Outputs[j].org.neutral_loss.v)
              /\ ~HasKey(Outputs[j].org, "neutral_loss")
                    => Outputs[j].neutral_loss = NoneResult

(* C5 witness: a request with a literal hint and one with no hint resolved. *)
C5_Witness ==
    /\ IsMapped
    /\ \E i, j \in 1..Len(Outputs) :
          /\ HasLiteral(Outputs[i].org)
          /\ ~HasKey(Outputs[j].org, "neutral_loss")

(* C6: a request with neither name nor id makes the call report an input
   error, an outcome no unresolvable request produces; it is not dropped. *)
C6_MissingKeyIsReported ==
    (call.op = "map_mods")
        => ((\E i \in 1..Len(call.arg) : ~WellFormed(call.arg[i]))
                <=> rval = Raised("InputError"))

(* C6 witness: a request that matches nothing, followed by one with neither
   name nor id, ended in the input error. *)
C6_Witness ==
    /\ call.op = "map_mods"
    /\ Len(call.arg) = 2
    /\ WellFormed(call.arg[1])
    /\ ~Resolves(call.arg[1])
    /\ ~WellFormed(call.arg[2])
    /\ rval = Raised("InputError")

-----------------------------------------------------------------------------
(* The approximate-mass lookups *)

(* 10 ** n *)
RECURSIVE Pow10(_)
Pow10(n) == IF n = 0 THEN 1 ELSE 10 * Pow10(n - 1)

(* The decimal places of a fixed-point mass: MassScale == 10 ** MassPlaces. *)
MassPlaces == CHOOSE n \in 0..9 : Pow10(n) = MassScale

(* The masses in play whose nearest float lies below, and above, the decimal
   written (15.995 is the float 15.99499...); the other masses are floats
   exactly. *)
FloatsBelow == {15995, 42010}
FloatsAbove == {57021, 57020, 42011}

(* round(float(umass), decimal_places): to the nearest multiple of
   10 ** -decimal_places.  A decimal halfway between two multiples goes to the
   side its float lies on, and to the even neighbour when the float is exact. *)
Round(umass, decimal_places) ==
    LET unit == Pow10(MassPlaces - decimal_places)
        q == umass \div unit
        r == umass % unit
    IN IF 2 * r < unit THEN q * unit
       ELSE IF 2 * r > unit THEN (q + 1) * unit
       ELSE IF umass \in FloatsBelow THEN q * unit
       ELSE IF umass \in FloatsAbove THEN (q + 1) * unit
       ELSE IF q % 2 = 0 THEN q * unit ELSE (q + 1) * unit

(* entry[entry_key] *)
EntryValue(entry, entry_key) ==
    CASE entry_key = "unimodID" -> entry.unimodID
      [] entry_key = "unimodname" -> entry.unimodname
      [] entry_key = "element" -> entry.element
      [] entry_key = "mono_mass" -> entry.mono_mass

(* abs(rounded_umass - mass) <= sys.float_info.epsilon: two multiples of
   1 / MassScale are that close only when they are equal.  The record mass is
   rounded, the mass given by the caller is compared as it came. *)
_appMass2whatever(mass, decimal_places, entry_key) ==
    LET hits == SelectSeq(data_list,
                    LAMBDA entry : Round(entry.mono_mass, decimal_places) = mass)
    IN ListResult([i \in 1..Len(hits) |-> EntryValue(hits[i], entry_key)])

appMass2id_list(mass, decimal_places) ==
    _appMass2whatever(mass, decimal_places, "unimodID")
appMass2element_list(mass, decimal_places) ==
    _appMass2whatever(mass, decimal_places, "element")
appMass2name_list(mass, decimal_places) ==
    _appMass2whatever(mass, decimal_places, "unimodname")

(* Query masses: the masses of the records, the same rounded to 2, 1 and 0
   places, and a mass no record has. *)
AppMassArgs == {57021, 57020, 57000, 15995, 16000, 42011}
DecimalPlacesArgs == {0, 1, 2}

(* An approximate-mass lookup reads self.data_list only. *)
AppMass(op, mass, decimal_places, result) ==
    /\ call' = [op |-> op, arg |-> [mass |-> mass, decimal_places |-> decimal_places]]
    /\ rval' = result
    /\ _data_list' = Some(data_list)
    /\ UNCHANGED <<unimod_xml, usermod_xml, custom_xml, _mapper>>

Do_appMass2id_list ==
    \E m \in AppMassArgs, d \in DecimalPlacesArgs :
        AppMass("appMass2id_list", m, d, appMass2id_list(m, d))
Do_appMass2element_list ==
    \E m \in AppMassArgs, d \in DecimalPlacesArgs :
        AppMass("appMass2element_list", m, d, appMass2element_list(m, d))
Do_appMass2name_list ==
    \E m \in AppMassArgs, d \in DecimalPlacesArgs :
        AppMass("appMass2name_list", m, d, appMass2name_list(m, d))

NextAppMass ==
    \/ Do_appMass2id_list
    \/ Do_appMass2element_list
    \/ Do_appMass2name_list

SpecAppMass == Init /\ [][NextAppMass]_vars

AppMassOps == {"appMass2id_list", "appMass2element_list", "appMass2name_list"}

AppMassAttr(op) ==
    CASE op = "appMass2id_list" -> "unimodID"
      [] op = "appMass2element_list" -> "element"
      [] op = "appMass2name_list" -> "unimodname"

(* The attribute of the records whose rounded mass is the rounded query mass,
   in Record Store order. *)
RoundedMatches(mass, decimal_places, attr) ==
    LET hits == SelectSeq(data_list,
                    LAMBDA r : Round(r.mono_mass, decimal_places)
                                   = Round(mass, decimal_places))
    IN [i \in 1..Len(hits) |-> EntryValue(hits[i], attr)]

(* C11: an approximate-mass lookup with d decimal places returns, in Record
   Store order, the requested attribute of exactly the records whose mass
   rounded to d places equals the query mass rounded to d places, also for a
   query mass that is not itself rounded to d places. *)
C11_AppMassMatchesRoundedQuery ==
    (call.op \in AppMassOps)
        => rval = ListResult(RoundedMatches(call.arg.mass, call.arg.decimal_places,
                                            AppMassAttr(call.op)))

-----------------------------------------------------------------------------
(* The XML form of a modification: what writeXML serialises and _parseXML
   reads back *)

(* A <mod> element: the record_id attribute (<<>> when it is absent), the
   title, the mono_mass attribute of its <delta>, the <element> children as
   <<symbol, number>> attribute texts and the <specificity> children as
   <<site, classification>>. *)
XmlMod(record_id, title, mono_mass, elements, specificity) ==
    [record_id |-> record_id, title |-> title, mono_mass |-> mono_mass,
     elements |-> elements, specificity |-> specificity]

(* The fraction digits of str(float): MassPlaces digits less the trailing
   zeros, one digit at least. *)
RECURSIVE FractionText(_, _)
FractionText(frac, places) ==
    IF places = 1 THEN Digits[frac + 1]
    ELSE IF frac % 10 = 0 THEN FractionText(frac \div 10, places - 1)
    ELSE FractionText(frac \div 10, places - 1) \o Digits[(frac % 10) + 1]

(* str(mass) of a float mass *)
MassText(mass) ==
    IntToStr(mass \div MassScale) \o "." \o FractionText(mass % MassScale, MassPlaces)

(* The masses and element numbers the texts of the files stand for. *)
KnownMasses == {57021, 15995, 42011, 42010, 16000}
KnownNumbers == -3..3

(* float(text) and int(text) *)
ParseFloat(text) == CHOOSE m \in KnownMasses : MassText(m) = text
ParseInt(text) == CHOOSE n \in KnownNumbers : IntToStr(n) = text

(* tmp["element"][symbol] = number: a new symbol goes last, a known one keeps
   its place. *)
DictSet(element, symbol, number) ==
    IF HasSymbol(element, symbol)
    THEN [i \in 1..Len(element) |->
             IF element[i][1] = symbol THEN <<symbol, number>> ELSE element[i]]
    ELSE Append(element, <<symbol, number>>)

(* An <element> with number 0 is kept in the dict. *)
RECURSIVE ParseElements_KeepZero(_, _)
ParseElements_KeepZero(elements, tmp) ==
    IF elements = <<>> THEN tmp
    ELSE ParseElements_KeepZero(Tail(elements),
             DictSet(tmp, Head(elements)[1], ParseInt(Head(elements)[2])))

(* number = int(attrib["number"]); if number != 0: tmp["element"][symbol] = number *)
RECURSIVE ParseElements(_, _)
ParseElements(elements, tmp) ==
    IF elements = <<>> THEN tmp
    ELSE LET number == ParseInt(Head(elements)[2])
         IN ParseElements(Tail(elements),
                IF number # 0 THEN DictSet(tmp, Head(elements)[1], number) ELSE tmp)

(* if classification != "Artefact": tmp["specificity"].append(...) *)
ParseSpecificity(specificity) ==
    SelectSeq(specificity, LAMBDA site : site[2] # "Artefact")

(* The record _parseXML appends for one <mod>. *)
ParseMod(mod) ==
    ModRecord(IF mod.record_id = None THEN "" ELSE mod.record_id[1],
              mod.title, ParseFloat(mod.mono_mass),
              ParseElements(mod.elements, <<>>),
              ParseSpecificity(mod.specificity))

-----------------------------------------------------------------------------
(* writeXML and _reparseXML *)

(* The modification_dict of a caller: "id" is optional. *)
ModificationDict(mass, name, composition, id) ==
    [mass |-> mass, name |-> name, composition |-> composition, id |-> id]

(* The mod_dict writeXML makes of an entry already in the file. *)
ModDictOf(data_dict) ==
    ModificationDict(data_dict.mono_mass, data_dict.unimodname,
                     data_dict.element, Some(data_dict.unimodID))

(* mod_dicts with the new entry put first. *)
MergedModDicts_NewFirst(modification_dict, xml_file) ==
    LET f == FileContent(xml_file)
        old == IF f = None THEN <<>> ELSE f[1]
    IN <<modification_dict>> \o [i \in 1..Len(old) |-> ModDictOf(old[i])]

(* mod_dicts: the entries of the existing file in their order, then the new
   one (each inserted before the last item of [modification_dict]). *)
MergedModDicts(modification_dict, xml_file) ==
    LET f == FileContent(xml_file)
        old == IF f = None THEN <<>> ELSE f[1]
    IN [i \in 1..Len(old) |-> ModDictOf(old[i])] \o <<modification_dict>>

(* "u{0}".format(len(mod_dicts)) for a dict without an id *)
IdOf(modification_dict, mod_dicts) ==
    IF modification_dict.id = None
    THEN "u" \o IntToStr(Len(mod_dicts))
    ELSE modification_dict.id[1]

(* The <mod> written for one dict; writeXML writes no <specificity>. *)
SerializeMod(modification_dict, mod_dicts) ==
    XmlMod(Some(IdOf(modification_dict, mod_dicts)),
           modification_dict.name,
           MassText(modification_dict.mass),
           [i \in 1..Len(modification_dict.composition) |->
               <<modification_dict.composition[i][1],
                 IntToStr(modification_dict.composition[i][2])>>],
           <<>>)

(* The file after the write, as _parseXML reads it. *)
WrittenFile(modification_dict, xml_file) ==
    LET mod_dicts == MergedModDicts(modification_dict, xml_file)
    IN [i \in 1..Len(mod_dicts) |-> ParseMod(SerializeMod(mod_dicts[i], mod_dicts))]

(* xml_list: self.unimod_xml_names, then the file written. *)
xml_list(xml_file) == Append(unimod_xml_names, xml_file)

(* _reparseXML keeping an Index that is already cached. *)
_reparseXML_KeepMapper(parsed) ==
    [_data_list |-> Some(parsed),
     _mapper |-> IF _mapper = None THEN Some(_initialize_mapper(parsed)) ELSE _mapper]

(* _reparseXML: both caches are replaced. *)
_reparseXML(parsed) ==
    [_data_list |-> Some(parsed), _mapper |-> Some(_initialize_mapper(parsed))]

-----------------------------------------------------------------------------
(* The engine with its overlay writer and the data_list setter *)

MaxWrites == 2      \* entries written to the overlay files, in total

(* What callers write: two entries under one name, one of them with an
   element of number 0; an entry with an id of its own that has the form of
   a synthesized one; an entry named like a record of unimod.xml. *)
ModificationPool ==
    { ModificationDict(57021, "X", CH2, None),
      ModificationDict(15995, "X", << <<"O", 1>>, <<"H", 0>> >>, None),
      ModificationDict(42011, "Y", << <<"N", 1>> >>, Some("u2")),
      ModificationDict(42010, "Carbamidomethyl", H2C, None) }

(* xml_file: the default (the packaged usermod.xml) or a file of the caller *)
XmlFileArgs == {"usermod.xml", "custom.xml"}

(* Lists a caller assigns to data_list. *)
AssignedLists == {<<>>, <<ReferenceRecords[3]>>}

OverlayNameArgs == {"X", "Y", "Carbamidomethyl"}

WrittenSoFar(xml_file) ==
    IF FileContent(xml_file) = None THEN 0 ELSE Len(FileContent(xml_file)[1])

InitOverlay ==
    /\ unimod_xml \in {SubSeq(ReferenceRecords, 1, n) : n \in 1..2}
    /\ usermod_xml = None
    /\ custom_xml = None
    /\ Constructed

(* writeXML: the file is rewritten with the new entry last, then both caches
   are rebuilt from self.unimod_xml_names and the file written. *)
Do_writeXML ==
    \E modification_dict \in ModificationPool, xml_file \in XmlFileArgs :
        /\ WrittenSoFar("usermod.xml") + WrittenSoFar("custom.xml") < MaxWrites
        /\ usermod_xml' = IF xml_file = "usermod.xml"
                          THEN Some(WrittenFile(modification_dict, xml_file))
                          ELSE usermod_xml
        /\ custom_xml' = IF xml_file = "custom.xml"
                         THEN Some(WrittenFile(modification_dict, xml_file))
                         ELSE custom_xml
        /\ UNCHANGED unimod_xml
        /\ LET reparsed == _reparseXML(_parseXML(xml_list(xml_file))')
           IN /\ _data_list' = reparsed._data_list
              /\ _mapper' = reparsed._mapper
        /\ call' = [op |-> "writeXML",
                    arg |-> [modification_dict |-> modification_dict,
                             xml_file |-> xml_file]]
        /\ rval' = NoneResult

(* data_list.setter: only self._data_list is assigned. *)
Set_data_list ==
    \E new_list \in AssignedLists :
        /\ _data_list' = Some(new_list)
        /\ call' = [op |-> "data_list.setter", arg |-> new_list]
        /\ rval' = NoneResult
        /\ UNCHANGED <<unimod_xml, usermod_xml, custom_xml, _mapper>>

(* First or later access of the property data_list. *)
Get_data_list ==
    /\ _data_list' = Some(data_list)
    /\ call' = [op |-> "data_list", arg |-> <<>>]
    /\ rval' = ValueResult(data_list)
    /\ UNCHANGED <<unimod_xml, usermod_xml, custom_xml, _mapper>>

(* First or later access of the property mapper; building it reads data_list. *)
Get_mapper ==
    /\ _mapper' = Some(mapper)
    /\ _data_list' = IF _mapper = None THEN Some(data_list) ELSE _data_list
    /\ call' = [op |-> "mapper", arg |-> <<>>]
    /\ rval' = ValueResult(mapper)
    /\ UNCHANGED <<unimod_xml, usermod_xml, custom_xml>>

Lookup_name2mass_list ==
    \E k \in OverlayNameArgs :
        Lookup("name2mass_list", k, StrKey(k), name2mass_list(k))
Lookup_name2first_mass ==
    \E k \in OverlayNameArgs :
        Lookup("name2first_mass", k, StrKey(k), name2first_mass(k))
Lookup_name2first_composition ==
    \E k \in OverlayNameArgs :
        Lookup("name2first_composition", k, StrKey(k), name2first_composition(k))

NextOverlay ==
    \/ Do_writeXML
    \/ Set_data_list
    \/ Get_data_list
    \/ Get_mapper
    \/ Lookup_name2mass_list
    \/ Lookup_name2first_mass
    \/ Lookup_name2first_composition

SpecOverlay == InitOverlay /\ [][NextOverlay]_vars

(* The Record Store a parse of the files as they are now gives, and the Index
   built over a Record Store from nothing. *)
FreshParse(xml_file_list) == _parseXML(xml_file_list)
IsWrite == call.op = "writeXML"

(* The entry a writeXML call added, as it stands in the file. *)
JustWritten ==
    LET f == FileContent(call.arg.xml_file)[1] IN f[Len(f)]

(* C12: in the state right after writeXML returns, the cached Record Store is
   a fresh parse of the file list that includes the file just written, the
   cached Index is the Index built from nothing over that Record Store, and a
   lookup by the new entry's name finds the new entry. *)
C12_WriteRebuildsBothCaches ==
    IsWrite
        => /\ _data_list = Some(FreshParse(xml_list(call.arg.xml_file)))
           /\ _mapper = Some(_initialize_mapper(_data_list[1]))
           /\ \E i \in 1..Len(_data_list[1]) :
                 /\ _data_list[1][i] = JustWritten
                 /\ i - 1 \in {mapper[StrKey(call.arg.modification_dict.name)][j] :
                                j \in 1..Len(mapper[StrKey(call.arg.modification_dict.name)])}
           /\ name2mass_list(call.arg.modification_dict.name).kind = "list"
           /\ \E j \in 1..Len(name2mass_list(call.arg.modification_dict.name).val) :
                 name2mass_list(call.arg.modification_dict.name).val[j]
                     = call.arg.modification_dict.mass

(* C12 witness: a second write to one file; the Record Store holds the
   records of unimod.xml and the entries of both writes. *)
C12_Witness ==
    /\ IsWrite
    /\ WrittenSoFar(call.arg.xml_file) = 2
    /\ Len(_data_list[1]) > Len(unimod_xml) + 2

(* A composition without its items of number 0. *)
NonZero(composition) == SelectSeq(composition, LAMBDA item : item[2] # 0)

(* The name, mass and composition a writeXML call was given. *)
WrittenName == call.arg.modification_dict.name
WrittenMass == call.arg.modification_dict.mass
WrittenComposition == call.arg.modification_dict.composition

(* C13 as stated: after writeXML of (m, n, c), name2first_mass(n) is m and
   name2first_composition(n) is c as written, whatever was written before. *)
C13_FirstLookupReturnsWritten ==
    IsWrite
        => /\ name2first_mass(WrittenName) = ValueResult(WrittenMass)
           /\ name2first_composition(WrittenName) = ValueResult(WrittenComposition)

(* No record other than the entry just written is registered under key. *)
OnlyWrittenUnder(key) ==
    \A i \in 1..Len(data_list) :
        (\E k \in 1..Len(RecordKeys(data_list[i])) : RecordKeys(data_list[i])[k] = key)
            => data_list[i] = JustWritten

(* C13 amended: after writeXML of (m, n, c) the list lookups by n hold, at one
   common position, the mass m and the composition c less its elements of
   number 0; the first-lookups return these two whenever no other record is
   registered under n. *)
C13_WrittenIsFoundByName ==
    IsWrite
        => LET masses == name2mass_list(WrittenName)
               compositions == name2composition_list(WrittenName)
           IN /\ masses.kind = "list" /\ compositions.kind = "list"
              /\ \E j \in 1..Len(masses.val) :
                    /\ masses.val[j] = WrittenMass
                    /\ compositions.val[j] = NonZero(WrittenComposition)
              /\ OnlyWrittenUnder(StrKey(WrittenName))
                    => /\ name2first_mass(WrittenName) = ValueResult(WrittenMass)
                       /\ name2first_composition(WrittenName)
                              = ValueResult(NonZero(WrittenComposition))

(* C13 witness: an entry with an element of number 0 written after an entry
   of another name, and found first under its name. *)
C13_Witness ==
    /\ IsWrite
    /\ WrittenSoFar(call.arg.xml_file) = 2
    /\ NonZero(WrittenComposition) # WrittenComposition
    /\ OnlyWrittenUnder(StrKey(WrittenName))
    /\ name2first_mass(WrittenName) = ValueResult(WrittenMass)

(* The entries of a file, none when it does not exist. *)
EntriesOf(xml_file) ==
    IF FileContent(xml_file) = None THEN <<>> ELSE FileContent(xml_file)[1]

(* A step that wrote one of the overlay files. *)
WriteStep == usermod_xml' # usermod_xml \/ custom_xml' # custom_xml

(* What a write step does to the file xml_file it names: one entry more, the
   earlier entries as they were and in their order, the new entry last with
   the name, mass and composition given and with the id given or "u<k>", k
   the number of entries after the merge. *)
MergeKeepsHistory(xml_file) ==
    LET given == call'.arg.modification_dict
        old == EntriesOf(xml_file)
        new == EntriesOf(xml_file)'
    IN /\ Len(new) = Len(old) + 1
       /\ SubSeq(new, 1, Len(old)) = old
       /\ new[Len(new)].unimodname = given.name
       /\ new[Len(new)].mono_mass = given.mass
       /\ new[Len(new)].element = NonZero(given.composition)
       /\ new[Len(new)].unimodID =
              IF given.id = None THEN "u" \o IntToStr(Len(new)) ELSE given.id[1]

(* The entries of xml_file before the last one, after the step. *)
EarlierIds(xml_file) ==
    LET new == EntriesOf(xml_file)'
    IN {<<i, new[i].unimodID>> : i \in 1..(Len(new) - 1)}

NewId(xml_file) ==
    LET new == EntriesOf(xml_file)' IN new[Len(new)].unimodID

(* C14 as stated: every write keeps the history as above, and an id that was
   synthesized differs from the id of every earlier entry of the file. *)
C14_MergeKeepsHistoryIdsDiffer ==
    [][\A xml_file \in XmlFileArgs :
          (WriteStep /\ call'.arg.xml_file = xml_file)
             => /\ MergeKeepsHistory(xml_file)
                /\ call'.arg.modification_dict.id = None
                      => \A e \in EarlierIds(xml_file) : e[2] # NewId(xml_file)]_vars

(* C14 amended: every write keeps the history as above, and an id that was
   synthesized differs from every earlier entry's id that is itself the
   positional id of that entry; it can repeat an id a caller chose. *)
C14_MergeKeepsHistory ==
    [][\A xml_file \in XmlFileArgs :
          (WriteStep /\ call'.arg.xml_file = xml_file)
             => /\ MergeKeepsHistory(xml_file)
                /\ call'.arg.modification_dict.id = None
                      => \A e \in EarlierIds(xml_file) :
                             e[2] = "u" \o IntToStr(e[1]) => e[2] # NewId(xml_file)]_vars

(* C14 witness: a second write to one file, both entries without an id of
   their own: they hold "u1" and "u2". *)
C14_Witness ==
    /\ IsWrite
    /\ call.arg.modification_dict.id = None
    /\ Len(EntriesOf(call.arg.xml_file)) = 2
    /\ EntriesOf(call.arg.xml_file)[1].unimodID = "u1"
    /\ EntriesOf(call.arg.xml_file)[2].unimodID = "u2"
    /\ EntriesOf(call.arg.xml_file)[1] # EntriesOf(call.arg.xml_file)[2]

(* C15: in every state reached by first accesses of data_list or mapper,
   assignments to data_list, writeXML calls and lookups, a cached Index is
   the Index built from nothing over the cached Record Store, so that no
   lookup is answered from an Index of an earlier Record Store. *)
C15_IndexMatchesRecordStore ==
    _mapper # None
        => /\ _data_list # None
           /\ _mapper[1] = _initialize_mapper(_data_list[1])

(* What name2mass_list and its like return on an engine whose Record Store is
   data and whose Index is built over it. *)
GetListOver(data, key, return_key) ==
    LET index == _initialize_mapper(data)
    IN IF key \in DOMAIN index
       THEN ListResult([i \in 1..Len(index[key]) |->
                           EntryValue(data[index[key][i] + 1], return_key)])
       ELSE ListResult(<<>>)

(* The Record Store a newly constructed engine parses on first access. *)
FreshLoad == FreshParse(unimod_xml_names)

(* How often a record occurs in a list. *)
Occurrences(r, l) == Cardinality({i \in 1..Len(l) : l[i] = r})

(* C18: after writeXML to the default overlay file, the cached Record Store
   is the sequence of records a newly constructed engine would parse from
   the same files; each overlay entry occurs in it as often as in the file,
   and name2mass_list by the written name gives what the new engine gives. *)
C18_PostWriteStoreIsFreshLoad ==
    (IsWrite /\ call.arg.xml_file = "usermod.xml")
        => /\ _data_list = Some(FreshLoad)
           /\ \A i \in 1..Len(EntriesOf("usermod.xml")) :
                 Occurrences(EntriesOf("usermod.xml")[i], _data_list[1])
                     = Occurrences(EntriesOf("usermod.xml")[i], EntriesOf("usermod.xml"))
           /\ name2mass_list(WrittenName)
                 = GetListOver(FreshLoad, StrKey(WrittenName), "mono_mass")

-----------------------------------------------------------------------------
(* The Index build over parsed files *)

(* <mod> elements as a file can hold them: one composition written in two
   orders, elements of number 0, several elements besides C and H, a title
   equal to the record_id, a <mod> with neither record_id nor elements, and
   an "Artefact" specificity. *)
XmlModPool ==
    { XmlMod(Some("1"), "Acetyl", "42.011",
             << <<"H", "2">>, <<"C", "2">>, <<"O", "1">> >>,
             << <<"K", "Multiple">>, <<"C", "Artefact">> >>),
      XmlMod(Some("2"), "Ketene", "42.011",
             << <<"O", "1">>, <<"C", "2">>, <<"H", "2">> >>, <<>>),
      XmlMod(Some("3"), "Label:13C(2)", "57.021",
             << <<"O", "1">>, <<"N", "1">>, <<"13C", "2">>, <<"H", "0">> >>,
             << <<"N-term", "Isotopic label">> >>),
      XmlMod(Some("4"), "Label", "57.021",
             << <<"13C", "2">>, <<"C", "0">>, <<"N", "1">>, <<"O", "1">> >>, <<>>),
      XmlMod(Some("Oxidation"), "Oxidation", "15.995", << <<"O", "1">> >>,
             << <<"M", "Post-translational">> >>),
      XmlMod(None, "Unknown", "16.0", <<>>, <<>>) }

ParsedPool == {ParseMod(mod) : mod \in XmlModPool}

InitIndex ==
    /\ unimod_xml \in SeqsUpTo(ParsedPool, MaxRecords)
    /\ usermod_xml = None
    /\ custom_xml = None
    /\ Constructed

NextIndex ==
    \/ Get_data_list
    \/ Get_mapper

SpecIndex == InitIndex /\ [][NextIndex]_vars

(* The positions a key's list holds, and how often it holds position i. *)
IndexBuilt == _mapper # None
TimesListed(key, i) ==
    IF key \in DOMAIN _mapper[1]
    THEN Cardinality({j \in 1..Len(_mapper[1][key]) : _mapper[1][key][j] = i})
    ELSE 0

(* The four values a record is to be registered under. *)
NameKeyOf(r) == StrKey(r.unimodname)
IdKeyOf(r) == StrKey(r.unimodID)
MassKeyOf(r) == NumKey(r.mono_mass)
CompositionKeyOf(r) == StrKey(hill_notation(r.element))
FourKeys(r) == {NameKeyOf(r), IdKeyOf(r), MassKeyOf(r), CompositionKeyOf(r)}

StrictlyIncreasing(l) == \A i, j \in 1..Len(l) : i < j => l[i] < l[j]

(* C16: in a built Index, the position of every record occurs exactly once
   in the list of each of its name, id string, mass and canonical composition
   string; every key is one of these four values of some record; and every
   key maps to a non-empty list of increasing positions. *)
C16_EachRecordOncePerKey ==
    IndexBuilt
        => /\ \A i \in 1..Len(_data_list[1]) :
                 \A key \in FourKeys(_data_list[1][i]) : TimesListed(key, i - 1) = 1
           /\ \A key \in DOMAIN _mapper[1] :
                 /\ \E i \in 1..Len(_data_list[1]) : key \in FourKeys(_data_list[1][i])
                 /\ _mapper[1][key] # <<>>
                 /\ StrictlyIncreasing(_mapper[1][key])

(* The element-count pairs of a composition, whatever their order. *)
PairsOf(element) == {element[i] : i \in 1..Len(element)}
NonZeroPairs(element) == {p \in PairsOf(element) : p[2] # 0}

(* The place of a symbol in the canonical string: C, then H, then the other
   symbols in lexicographic order. *)
PlaceOf(sym) ==
    IF sym = "C" THEN 0
    ELSE IF sym = "H" THEN 1
    ELSE 1 + (CHOOSE k \in 1..Len(SymbolOrder) : SymbolOrder[k] = sym)

(* The Symbol(count) terms of a set of pairs from a place on. *)
RECURSIVE CanonicalFrom(_, _)
CanonicalFrom(pairs, place) ==
    IF place > Len(SymbolOrder) + 1 THEN ""
    ELSE (IF \E p \in pairs : PlaceOf(p[1]) = place
          THEN LET p == CHOOSE q \in pairs : PlaceOf(q[1]) = place
               IN p[1] \o "(" \o IntToStr(p[2]) \o ")"
          ELSE "") \o CanonicalFrom(pairs, place + 1)

CanonicalString(element) == CanonicalFrom(NonZeroPairs(element), 0)

(* The compositions _parseXML makes of the <mod> elements. *)
CompositionPool == {r.element : r \in ParsedPool}

(* C17: the composition key a record is registered under is the string of
   its Symbol(count) terms, C first, H second, the other symbols in
   lexicographic order, with no term for a count of zero; a composition with
   the same element-count pairs in another order gives the same string, and
   one with other non-zero pairs gives another string. *)
C17_CanonicalCompositionString ==
    IndexBuilt
        => \A i \in 1..Len(_data_list[1]) :
              LET element == _data_list[1][i].element
              IN /\ hill_notation(element) = CanonicalString(element)
                 /\ TimesListed(StrKey(CanonicalString(element)), i - 1) >= 1
                 /\ \A other \in CompositionPool :
                       (NonZeroPairs(other) = NonZeroPairs(element))
                           <=> (hill_notation(other) = hill_notation(element))

(* C17 witness: two records whose compositions hold the same pairs in
   different orders, three of them besides C and H, under one key. *)
C17_Witness ==
    /\ IndexBuilt
    /\ Len(_data_list[1]) = 2
    /\ _data_list[1][1].element # _data_list[1][2].element
    /\ PairsOf(_data_list[1][1].element) = PairsOf(_data_list[1][2].element)
    /\ Cardinality({p \in PairsOf(_data_list[1][1].element) : p[1] \notin {"C", "H"}}) = 3
    /\ TimesListed(CompositionKeyOf(_data_list[1][1]), 0) = 1
    /\ TimesListed(CompositionKeyOf(_data_list[1][1]), 1) = 1

====
